---- MODULE Spec2Model ----
(***************************************************************************)
(* A model of pycrawl's Crawler (src/pycrawl/crawler.py): the url          *)
(* generator, the tiered skip lists, the error dispatch of crawl(), the    *)
(* idle back-off of noSubmissionHandler, the run loop with its graceful    *)
(* shutdown, and the message-queue publisher _send.                        *)
(***************************************************************************)
EXTENDS Integers, Sequences, FiniteSets, TLC

\* ------------------------------------------------------------------ bounds
\* number of skip tiers: skipmaxretries, default 3
NumTiers == 3
\* skipmax used by the model (the code's default is 15)
SkipMax == 2
\* the cursor range of the model: endingid lies MaxSteps steps from startingid
MaxSteps == 1
\* how many steps below startingid the model lets the cursor be rewound
RewindRoom == 1
\* caps on the number of targets held in the tiers and on the length of self.urls
MaxPending == 2
MaxUrls == 1
\* number of tries of _send's loop: range(3)
SendTries == 3

\* the cursor values the model lets the generator yield and the rewind reach
CursorLow(c) == IF c.direction > 0 THEN c.startingid - c.direction * RewindRoom
                                   ELSE c.endingid
CursorHigh(c) == IF c.direction > 0 THEN c.endingid ELSE c.startingid
\* how far below startingid the model lets noSubmissionHandler rewind: in
\* explicit mode (g) the cursor stands at startingid when it is rewound
RewindLow(c, g) == IF g = "explicit"
                   THEN c.startingid - c.direction * SkipMax * RewindRoom
                   ELSE CursorLow(c)
Tiers == 0 .. (NumTiers - 1)
LastTier == NumTiers - 1

\* ------------------------------------------------------------- outcomes
\* What one call of crawl() meets: the result of downloadHtml/parse/
\* postProcess/send.  t is the exception type ("ok" when none is raised),
\* s the status carried by a ResponseNotOk.
Statuses == {-1, 0, 404, 500, 503, 600}
ErrorTypes == {"BadOrMalformedResponse", "WebsiteOffline", "InvalidResponseType",
               "ConnectionError", "NoSubmission", "InvalidSubmission",
               "SSLError", "ReadTimeout", "Unclassified"}
Outcomes == {[t |-> "ok", s |-> 0]}
            \cup {[t |-> "ResponseNotOk", s |-> st] : st \in Statuses}
            \cup {[t |-> ty, s |-> 0] : ty \in ErrorTypes}

\* one outcome for each thing crawl() can do with a target
CoreStatuses == {-1, 404, 503, 600}
CoreTypes == {"BadOrMalformedResponse", "NoSubmission", "Unclassified"}
CoreOutcomes == {o \in Outcomes : \/ o.t = "ok"
                                  \/ o.t = "ResponseNotOk" /\ o.s \in CoreStatuses
                                  \/ o.t \in CoreTypes}

\* checkSkips reads of crawl() its truth value only, and crawl() puts nothing
\* into a tier during a drain: one outcome for each thing a re-attempt can do
DrainStatuses == {404, 503}
DrainTypes == {"NoSubmission", "Unclassified"}
DrainOutcomes == {o \in Outcomes : \/ o.t = "ok"
                                   \/ o.t = "ResponseNotOk" /\ o.s \in DrainStatuses
                                   \/ o.t \in DrainTypes}

\* int(e.status / 100) * 100: int() truncates towards zero
HundredCode(st) == IF st >= 0 THEN (st \div 100) * 100 ELSE 0 - (((0 - st) \div 100) * 100)

\* keys of self.responseNotOkHandlers
ResponseNotOkKeys == {0, 400, 500}

\* handlers that never sleep
ResponseNotOkHandlerCalm(h) == [act |-> "skipUrl", sleep |-> 0]

\* self.responseNotOkHandlers[h]: every entry calls skipUrl; 500 sleeps an hour
ResponseNotOkHandler(h) ==
    IF h = 500 THEN [act |-> "skipUrl", sleep |-> 60]
               ELSE [act |-> "skipUrl", sleep |-> 0]

\* the table with skipUrl as its default: a crawler that skips what it cannot
\* classify
ErrorHandlerSkipping(ty) ==
    CASE ty = "BadOrMalformedResponse" -> [act |-> "shutdown", sleep |-> 0]
      [] ty = "WebsiteOffline"         -> [act |-> "skipUrl", sleep |-> 60]
      [] ty = "InvalidResponseType"    -> [act |-> "skipUrl", sleep |-> 0]
      [] ty = "ConnectionError"        -> [act |-> "skipUrl", sleep |-> 5]
      [] ty = "NoSubmission"           -> [act |-> "noSubmissionHandler", sleep |-> 0]
      [] ty = "InvalidSubmission"      -> [act |-> "true", sleep |-> 0]
      [] ty = "SSLError"               -> [act |-> "skipUrl", sleep |-> 0]
      [] ty = "ReadTimeout"            -> [act |-> "skipUrl", sleep |-> 1]
      [] OTHER                         -> [act |-> "skipUrl", sleep |-> 0]

\* self.errorHandlers[type(e)], a defaultdict whose default is self.shutdown
ErrorHandler(ty) ==
    CASE ty = "BadOrMalformedResponse" -> [act |-> "shutdown", sleep |-> 0]
      [] ty = "WebsiteOffline"         -> [act |-> "skipUrl", sleep |-> 60]
      [] ty = "InvalidResponseType"    -> [act |-> "skipUrl", sleep |-> 0]
      [] ty = "ConnectionError"        -> [act |-> "skipUrl", sleep |-> 5]
      [] ty = "NoSubmission"           -> [act |-> "noSubmissionHandler", sleep |-> 0]
      [] ty = "InvalidSubmission"      -> [act |-> "true", sleep |-> 0]
      [] ty = "SSLError"               -> [act |-> "skipUrl", sleep |-> 0]
      [] ty = "ReadTimeout"            -> [act |-> "skipUrl", sleep |-> 1]
      [] OTHER                         -> [act |-> "shutdown", sleep |-> 0]

\* The except ResponseNotOk branch of crawl(): what it does and what crawl
\* returns.  No branch returns a value, so crawl returns None.
ResponseNotOkEffect(st) ==
    IF st = 503 THEN [act |-> "requeue", sleep |-> 5, ret |-> "None"]
    ELSE IF st = -1 THEN [act |-> "requeue", sleep |-> 0, ret |-> "None"]
    ELSE IF HundredCode(st) \in ResponseNotOkKeys
         THEN [act |-> "skipUrl", sleep |-> ResponseNotOkHandler(HundredCode(st)).sleep,
               ret |-> "None"]
         ELSE [act |-> "none", sleep |-> 0, ret |-> "None"]

\* noSubmissionHandler's test: the back-off branch or "return True"
NoSubmissionCounts(dir, checking) == dir > 0 /\ ~checking

\* crawl(url) for outcome o: the action taken, the sleep (minutes) and the
\* value returned ("raise" when ShutdownCrawler leaves crawl)
CrawlEffect(o, dir, checking) ==
    IF o.t = "ok" THEN [act |-> "none", sleep |-> 0, ret |-> "True"]
    ELSE IF o.t = "ResponseNotOk" THEN ResponseNotOkEffect(o.s)
    ELSE LET h == ErrorHandler(o.t) IN
         CASE h.act = "shutdown" -> [act |-> "shutdown", sleep |-> 0, ret |-> "raise"]
           [] h.act = "skipUrl"  -> [act |-> "skipUrl", sleep |-> h.sleep, ret |-> "None"]
           [] h.act = "true"     -> [act |-> "none", sleep |-> 0, ret |-> "True"]
           [] h.act = "noSubmissionHandler" ->
                IF NoSubmissionCounts(dir, checking)
                THEN [act |-> "nosub", sleep |-> 0, ret |-> "False"]
                ELSE [act |-> "none", sleep |-> 0, ret |-> "True"]

\* a run() that takes no return value of crawl() as true
NeverTruthy(ret) == FALSE

Truthy(ret) == ret = "True"

\* ---------------------------------------------------------------- state
VARIABLES
    cfg,          \* the constructor's arguments: startingid, direction, endingid
    id,           \* self.id, the cursor
    urls,         \* self.urls
    skipped,      \* self.skipped: tier index -> list of targets
    checkingSkips,            \* self.checkingSkips (None is modelled as FALSE)
    consecutiveNoSubmissions, \* self.consecutiveNoSubmissions
    isSet,        \* event.is_set()
    pc,           \* where run() is: "gen", "crawl", "check", "drain", "shutdown", "exit"
    gen,          \* where urlGenerator is suspended: "init", "explicit", "cursor", "requeue", "ended"
    rq,           \* iterations left of urlGenerator's re-queue loop
    cur,          \* the target the generator yielded last
    src,          \* which yield produced it: "cursor", "requeue", "explicit"
    dctx,         \* who called checkSkips: "periodic", "idle", "shutdown" ("none" outside)
    di,           \* checkSkips' tier index i
    maxChecks,    \* run()'s maxChecks
    fatal,        \* history: ShutdownCrawler has been raised
    passes,       \* history: checkSkips calls made by the graceful shutdown
    last,         \* history: the crawl() call just made
    run1,         \* history: the run of counted NoSubmission outcomes
    owed,         \* history: the cursor value that met a 503 and awaits its retry
    passFailed,   \* history: <<target, tier it was pushed to>> of this drain pass
    dropped,      \* history: the target last dropped from the last tier, kept until
                  \*          the generator next yields a cursor value
    pub           \* the publisher: self.send and the call of _send in progress

vars == <<cfg, id, urls, skipped, checkingSkips, consecutiveNoSubmissions, isSet,
          pc, gen, rq, cur, src, dctx, di, maxChecks, fatal, passes, last, run1,
          owed, passFailed, dropped, pub>>

engineVars == <<cfg, id, urls, skipped, checkingSkips, consecutiveNoSubmissions,
                isSet, pc, gen, rq, cur, src, dctx, di, maxChecks, fatal, passes,
                last, run1, owed, passFailed, dropped>>

NoLast == [op |-> "none", target |-> 0, o |-> [t |-> "ok", s |-> 0], ret |-> "None",
           tier |-> -1, push |-> -1, requeued |-> FALSE, sleep |-> 0,
           rewound |-> FALSE, idWas |-> 0, ctx |-> "none",
           first |-> 0, pure |-> TRUE, again |-> FALSE, afterDrop |-> FALSE,
           removed |-> {}, counted |-> {}]
NoRun == [first |-> 0, pure |-> TRUE, targets |-> {}]
NoOwed == [on |-> FALSE, v |-> 0]
NoPub == [pc |-> "off", mq |-> FALSE, tries |-> 0, reconnects |-> 0, delivered |-> FALSE,
          raised |-> FALSE, log |-> <<>>]

\* ------------------------------------------------------------- helpers
Min(a, b) == IF a < b THEN a ELSE b
Max(a, b) == IF a < b THEN b ELSE a

\* totalSkipped(): sum(len(i) for i in self.skipped)
RECURSIVE SumLen(_, _)
SumLen(sk, i) == IF i < 0 THEN 0 ELSE Len(sk[i]) + SumLen(sk, i - 1)
TotalSkipped(sk) == SumLen(sk, LastTier)

\* self.done(): the ending bound in the direction of travel, or the event
Done(c, i, ev) ==
    IF c.hasEnd
    THEN IF c.direction > 0 THEN i > c.endingid \/ ev ELSE i < c.endingid \/ ev
    ELSE ev

\* a skipUrl that does not look at checkingSkips
SkipUrlAlways(sk, u, checking) == [sk EXCEPT ![0] = Append(@, u)]

\* skipUrl(): append self.url to tier 0 unless a drain is running
SkipUrl(sk, u, checking) ==
    IF ~checking THEN [sk EXCEPT ![0] = Append(@, u)] ELSE sk

\* del self.skipped[0][-n:]  (n >= 1): drop the last n entries, all if fewer
DelLast(s, n) == SubSeq(s, 1, Len(s) - Min(n, Len(s)))

\* the entries that del self.skipped[0][-n:] removes
Removed(s, n) == {s[k] : k \in (Len(s) - Min(n, Len(s)) + 1) .. Len(s)}

\* a rewind that forgets the step: self.id -= n
RewindByCount(i, n, dir) == i - n

\* the rewind of noSubmissionHandler: self.id -= n * self.direction
Rewind(i, n, dir) == i - n * dir

\* noSubmissionHandler's threshold test
ReachedSkipMax(n) == n >= SkipMax

\* checkSkips' loops: the next tier at or below i that holds a target (-1: none)
RECURSIVE NextTier(_, _)
NextTier(sk, i) == IF i < 0 THEN -1 ELSE IF Len(sk[i]) > 0 THEN i ELSE NextTier(sk, i - 1)

\* checkSkips: where a target popped from tier i goes when crawl returned ret
\* (-1: nowhere)
EscalateTo(i, ret) == IF Truthy(ret) THEN -1 ELSE IF i < LastTier THEN i + 1 ELSE -1

\* a generator without the re-queue loop
RequeueNone(u) == 0

\* urlGenerator: the number of re-queue yields after a cursor yield
RequeueCount(u) == Len(u)

\* a shutdown that allows one pass less
ShutdownChecksShort == NumTiers - 1

\* run(): maxChecks = len(self.skipped)
ShutdownChecks == NumTiers

\* run(): the guard of the graceful-shutdown loop
ShutdownContinues(mc, sk) == mc > 0 /\ TotalSkipped(sk) > 0

\* where control goes when checkSkips returns to its caller
DrainReturn(ctx) ==
    [pc |-> CASE ctx = "idle" -> "check" [] ctx = "periodic" -> "gen" [] OTHER -> "shutdown",
     dctx |-> "none", di |-> 0, checking |-> FALSE, returned |-> TRUE]

\* checkSkips with tiers sk, looking for work from tier i down
DrainAt(ctx, sk, i) ==
    LET nt == NextTier(sk, i) IN
    IF nt >= 0 THEN [pc |-> "drain", dctx |-> ctx, di |-> nt, checking |-> TRUE,
                     returned |-> FALSE]
    ELSE DrainReturn(ctx)

\* ----------------------------------------------------------------- Init
Forward(d, h) ==
    [startingid |-> 0, direction |-> d, hasEnd |-> h, endingid |-> MaxSteps * d]
Backward(h) ==
    [startingid |-> MaxSteps, direction |-> -1, hasEnd |-> h, endingid |-> 0]
\* cursor mode: forward by steps of 2 to an ending bound, backward with and
\* without one
Configs == {Forward(2, TRUE), Backward(TRUE), Backward(FALSE)}
ExplicitConfigs == {Forward(1, TRUE), Backward(TRUE)}

\* self.urls = list(set(urls)): no duplicates, any order
ExplicitUrls == {<<0>>, <<1, 0>>}

Init ==
    /\ \/ cfg \in Configs /\ urls = <<>>
       \/ cfg \in ExplicitConfigs /\ urls \in ExplicitUrls
    /\ id = cfg.startingid
    /\ skipped = [i \in Tiers |-> <<>>]
    /\ checkingSkips = FALSE
    /\ consecutiveNoSubmissions = 0
    /\ isSet = FALSE
    /\ pc = "gen"
    /\ gen = "init"
    /\ rq = 0
    /\ cur = 0
    /\ src = "none"
    /\ dctx = "none"
    /\ di = 0
    /\ maxChecks = 0
    /\ fatal = FALSE
    /\ passes = 0
    /\ last = NoLast
    /\ run1 = NoRun
    /\ owed = NoOwed
    /\ passFailed = {}
    /\ dropped = NoOwed
    /\ pub = NoPub

\* ------------------------------------------------------- urlGenerator
\* run()'s for loop resumes the generator after crawl() (and after the
\* periodic checkSkips, when that ran).
Pulling == pc \in {"gen", "check"}

GenFrame == UNCHANGED <<cfg, skipped, checkingSkips, consecutiveNoSubmissions, isSet,
                        dctx, di, fatal, passes, run1, owed, pub>>
                /\ passFailed' = {}

\* explicit mode: while self.urls: yield self.urls.pop(0)
GenExplicit ==
    /\ Pulling
    /\ \/ gen = "init" /\ urls # <<>>
       \/ gen = "explicit"
    /\ urls # <<>>
    /\ cur' = Head(urls) /\ src' = "explicit" /\ urls' = Tail(urls)
    /\ gen' = "explicit" /\ pc' = "crawl" /\ last' = NoLast
    /\ UNCHANGED <<id, rq, maxChecks, dropped>>
    /\ GenFrame

\* the cursor after the generator resumes from "yield self.id"
Advance(i, dir) == i + dir

CursorAfterResume == IF gen = "cursor" THEN Advance(id, cfg.direction) ELSE id
RequeueLeft == IF gen = "cursor" THEN RequeueCount(urls) ELSE IF gen = "requeue" THEN rq ELSE 0
InCursorMode == (gen = "init" /\ urls = <<>>) \/ gen \in {"cursor", "requeue"}

\* for _ in range(len(self.urls)): yield self.urls.pop(0)
GenRequeue ==
    /\ Pulling /\ InCursorMode
    /\ RequeueLeft > 0
    /\ cur' = Head(urls) /\ src' = "requeue" /\ urls' = Tail(urls)
    /\ rq' = RequeueLeft - 1
    /\ id' = CursorAfterResume
    /\ gen' = "requeue" /\ pc' = "crawl" /\ last' = NoLast
    /\ UNCHANGED <<maxChecks, dropped>>
    /\ GenFrame

\* while not self.done(): yield self.id
GenCursor ==
    /\ Pulling /\ InCursorMode
    /\ RequeueLeft = 0
    /\ ~Done(cfg, CursorAfterResume, isSet)
    /\ CursorAfterResume \in CursorLow(cfg) .. CursorHigh(cfg)
    /\ id' = CursorAfterResume
    /\ cur' = CursorAfterResume /\ src' = "cursor"
    /\ rq' = 0
    /\ gen' = "cursor" /\ pc' = "crawl" /\ last' = NoLast
    /\ dropped' = NoOwed
    /\ UNCHANGED <<urls, maxChecks>>
    /\ GenFrame

\* the generator returns; run() logs and starts the graceful shutdown
GenEnd ==
    /\ Pulling
    /\ \/ gen = "explicit" /\ urls = <<>>
       \/ InCursorMode /\ RequeueLeft = 0 /\ Done(cfg, CursorAfterResume, isSet)
    /\ id' = CursorAfterResume
    /\ gen' = "ended" /\ rq' = 0
    /\ pc' = "shutdown" /\ maxChecks' = ShutdownChecks
    /\ last' = NoLast
    /\ UNCHANGED <<urls, cur, src, dropped>>
    /\ GenFrame

\* --------------------------------------------------------------- crawl
\* the history of the run of counted NoSubmission outcomes
RunAfter(counted, triggered, reset, c) ==
    IF triggered \/ reset THEN NoRun
    ELSE IF counted
         THEN IF c = 0 THEN [first |-> cur, pure |-> src = "cursor", targets |-> {cur}]
                       ELSE [first |-> run1.first, pure |-> run1.pure /\ src = "cursor",
                             targets |-> run1.targets \cup {cur}]
         ELSE IF c = 0 THEN NoRun
                       ELSE [first |-> run1.first, pure |-> FALSE, targets |-> run1.targets]

\* the run that a NoSubmission outcome at counter c completes or extends
RunNow(c) ==
    IF c = 0 THEN [first |-> cur, pure |-> src = "cursor", targets |-> {cur}]
             ELSE [first |-> run1.first, pure |-> run1.pure /\ src = "cursor",
                   targets |-> run1.targets \cup {cur}]

\* run(): crawl(url) on the target the generator yielded, and
\* "if self.crawl(url): self.consecutiveNoSubmissions = 0".  A NoSubmission
\* that reaches skipMax rewinds and calls idle(), whose checkSkips starts here.
Crawl(o) ==
    /\ pc = "crawl"
    /\ LET e == CrawlEffect(o, cfg.direction, checkingSkips)
           skips == e.act \in {"skipUrl", "nosub"}
           sk1 == IF skips THEN SkipUrl(skipped, cur, checkingSkips) ELSE skipped
           c1 == IF e.act = "nosub" THEN consecutiveNoSubmissions + 1
                                     ELSE consecutiveNoSubmissions
           trig == e.act = "nosub" /\ ReachedSkipMax(c1)
           sk2 == IF trig THEN [sk1 EXCEPT ![0] = DelLast(@, c1)] ELSE sk1
           id2 == IF trig THEN Rewind(id, c1, cfg.direction) ELSE id
           c2 == IF trig THEN 0 ELSE c1
           c3 == IF Truthy(e.ret) THEN 0 ELSE c2
           ctl == IF trig THEN DrainAt("idle", sk2, LastTier)
                          ELSE [pc |-> "check", dctx |-> "none", di |-> 0,
                                checking |-> checkingSkips, returned |-> FALSE]
       IN
       /\ e.act = "requeue" => Len(urls) < MaxUrls
       /\ (skips /\ ~checkingSkips) => TotalSkipped(skipped) < MaxPending
       /\ trig => id2 >= RewindLow(cfg, gen)
       /\ urls' = IF e.act = "requeue" THEN Append(urls, cur) ELSE urls
       /\ skipped' = sk2
       /\ id' = id2
       /\ consecutiveNoSubmissions' = c3
       /\ last' = [op |-> "main", target |-> cur, o |-> o, ret |-> e.ret, tier |-> -1,
                   push |-> IF skips /\ ~checkingSkips THEN 0 ELSE -1,
                   requeued |-> e.act = "requeue", sleep |-> e.sleep,
                   rewound |-> trig, idWas |-> IF trig THEN id ELSE 0,
                   ctx |-> "main",
                   first |-> IF trig THEN RunNow(consecutiveNoSubmissions).first ELSE 0,
                   pure |-> IF trig THEN RunNow(consecutiveNoSubmissions).pure ELSE TRUE,
                   again |-> FALSE, afterDrop |-> dropped.on /\ dropped.v = cur,
                   removed |-> IF trig THEN Removed(sk1[0], c1) ELSE {},
                   counted |-> IF trig THEN RunNow(consecutiveNoSubmissions).targets ELSE {}]
       /\ passFailed' = {}
       /\ run1' = RunAfter(e.act = "nosub", trig, Truthy(e.ret), consecutiveNoSubmissions)
       /\ owed' = IF src = "cursor" /\ o.t = "ResponseNotOk" /\ o.s = 503
                  THEN [on |-> TRUE, v |-> cur]
                  ELSE IF owed.on /\ owed.v = cur THEN NoOwed ELSE owed
       /\ IF e.ret = "raise"
          THEN /\ pc' = "shutdown" /\ maxChecks' = ShutdownChecks /\ fatal' = TRUE
               /\ UNCHANGED <<dctx, di, checkingSkips>>
          ELSE /\ pc' = ctl.pc /\ dctx' = ctl.dctx /\ di' = ctl.di
               /\ checkingSkips' = ctl.checking
               /\ UNCHANGED <<maxChecks, fatal>>
    /\ UNCHANGED <<cfg, isSet, gen, rq, cur, src, passes, dropped>>

\* ---------------------------------------------------------- checkSkips
\* run(): "if time.time() > nextcheck: self.checkSkips()".  The clock is not
\* modelled: the check may or may not be due.  With every tier empty
\* checkSkips changes nothing, so the action is taken only with work to do.
PeriodicDrain ==
    /\ pc = "check"
    /\ TotalSkipped(skipped) > 0
    /\ LET ctl == DrainAt("periodic", skipped, LastTier) IN
       /\ pc' = ctl.pc /\ dctx' = ctl.dctx /\ di' = ctl.di /\ checkingSkips' = ctl.checking
    /\ last' = NoLast
    /\ UNCHANGED <<cfg, id, urls, skipped, consecutiveNoSubmissions, isSet, gen, rq,
                   cur, src, maxChecks, fatal, passes, run1, owed, dropped, pub>>
    /\ passFailed' = {}

\* one iteration of "while self.skipped[i]": pop, crawl, escalate; then the
\* loops move on to the next tier that holds a target, or checkSkips returns
DrainStep(o) ==
    /\ pc = "drain"
    /\ Len(skipped[di]) > 0
    /\ LET u == skipped[di][Len(skipped[di])]
           popped == [skipped EXCEPT ![di] = SubSeq(@, 1, Len(@) - 1)]
           e == CrawlEffect(o, cfg.direction, checkingSkips)
           skips == e.act \in {"skipUrl", "nosub"}
           sk1 == IF skips THEN SkipUrl(popped, u, checkingSkips) ELSE popped
           to == EscalateTo(di, e.ret)
           sk2 == IF to >= 0 THEN [sk1 EXCEPT ![to] = Append(@, u)] ELSE sk1
           ctl == DrainAt(dctx, sk2, di)
       IN
       /\ e.act = "requeue" => Len(urls) < MaxUrls
       /\ urls' = IF e.act = "requeue" THEN Append(urls, u) ELSE urls
       /\ owed' = IF owed.on /\ owed.v = u THEN NoOwed ELSE owed
       /\ last' = [op |-> "drain", target |-> u, o |-> o, ret |-> e.ret, tier |-> di,
                   push |-> IF e.ret = "raise" THEN -1 ELSE to,
                   requeued |-> e.act = "requeue", sleep |-> e.sleep,
                   rewound |-> FALSE, idWas |-> 0,
                   ctx |-> dctx, first |-> 0, pure |-> TRUE,
                   again |-> \E f \in passFailed : f[1] = u,
                   afterDrop |-> dropped.on /\ dropped.v = u,
                   removed |-> {}, counted |-> {}]
       /\ passFailed' = IF e.ret # "raise" /\ to >= 0
                         THEN passFailed \cup {<<u, to>>} ELSE passFailed
       /\ dropped' = IF di = LastTier /\ ~Truthy(e.ret)
                     THEN [on |-> TRUE, v |-> u] ELSE dropped
       /\ IF e.ret = "raise"
          THEN \* ShutdownCrawler leaves checkSkips: checkingSkips stays True
               /\ skipped' = sk1
               /\ fatal' = TRUE
               /\ dctx' = "none" /\ di' = 0
               /\ UNCHANGED checkingSkips
               /\ IF dctx = "shutdown"
                  THEN pc' = "exit" /\ UNCHANGED maxChecks
                  ELSE pc' = "shutdown" /\ maxChecks' = ShutdownChecks
          ELSE /\ skipped' = sk2
               /\ pc' = ctl.pc /\ dctx' = ctl.dctx /\ di' = ctl.di
               /\ checkingSkips' = ctl.checking
               /\ maxChecks' = IF ctl.returned /\ dctx = "shutdown"
                               THEN maxChecks - 1 ELSE maxChecks
               /\ UNCHANGED fatal
    /\ UNCHANGED <<cfg, id, consecutiveNoSubmissions, isSet, gen, rq, cur, src, passes,
                   run1, pub>>

\* ------------------------------------------------- graceful shutdown
\* while maxChecks > 0 and self.skips(): sleep; self.checkSkips(); maxChecks -= 1
ShutdownPass ==
    /\ pc = "shutdown"
    /\ ShutdownContinues(maxChecks, skipped)
    /\ LET ctl == DrainAt("shutdown", skipped, LastTier) IN
       /\ pc' = ctl.pc /\ dctx' = ctl.dctx /\ di' = ctl.di /\ checkingSkips' = ctl.checking
       /\ maxChecks' = IF ctl.returned THEN maxChecks - 1 ELSE maxChecks
    /\ passes' = passes + 1
    /\ last' = NoLast
    /\ UNCHANGED <<cfg, id, urls, skipped, consecutiveNoSubmissions, isSet, gen, rq,
                   cur, src, fatal, run1, owed, dropped, pub>>
    /\ passFailed' = {}

\* the loop ends: the final log, and run() returns
ShutdownFinish ==
    /\ pc = "shutdown"
    /\ ~ShutdownContinues(maxChecks, skipped)
    /\ pc' = "exit"
    /\ last' = NoLast
    /\ UNCHANGED <<cfg, id, urls, skipped, checkingSkips, consecutiveNoSubmissions,
                   isSet, gen, rq, cur, src, dctx, di, maxChecks, fatal, passes, run1,
                   owed, dropped, pub>>
    /\ passFailed' = {}

\* another process sets the event
\* The event is read only by done(), when the generator resumes: setting it
\* at any other moment is seen as setting it just before that.
SetEvent ==
    /\ ~isSet
    /\ Pulling
    /\ isSet' = TRUE
    /\ UNCHANGED <<cfg, id, urls, skipped, checkingSkips, consecutiveNoSubmissions,
                   pc, gen, rq, cur, src, dctx, di, maxChecks, fatal, passes, last, run1,
                   owed, passFailed, dropped, pub>>

Next ==
    \/ GenExplicit
    \/ GenRequeue
    \/ GenCursor
    \/ GenEnd
    \/ \E o \in CoreOutcomes : Crawl(o) /\ UNCHANGED pub
    \/ PeriodicDrain
    \/ \E o \in DrainOutcomes : DrainStep(o)
    \/ ShutdownPass
    \/ ShutdownFinish
    \/ SetEvent

Spec == Init /\ [][Next]_vars

\* the same engine meeting every outcome of Outcomes in the main loop, run
\* from the small configurations: explicit targets, or a backward cursor
InitPolicy == Init /\ (urls # <<>> \/ cfg = Backward(TRUE))

NextPolicy ==
    \/ GenExplicit
    \/ GenRequeue
    \/ GenCursor
    \/ GenEnd
    \/ \E o \in Outcomes : Crawl(o) /\ UNCHANGED pub
    \/ PeriodicDrain
    \/ \E o \in DrainOutcomes : DrainStep(o)
    \/ ShutdownPass
    \/ ShutdownFinish
    \/ SetEvent

SpecPolicy == InitPolicy /\ [][NextPolicy]_vars

\* ----------------------------------------------------------- publisher
\* crawl() with the download and the parse succeeding: what remains is
\* self.send(result).  pub.mq tells whether self.send is _send (mqConnect
\* succeeded) or the logger of __init__; pub.pc is where _send is: "try"
\* before basic_publish, "reconnect" in the except clause; tries, reconnects,
\* delivered, raised and log describe the call in progress or the last one.
SendOutcomes == {"ok", "ConnectionWrongStateError", "StreamLostError", "ChannelClosed"}
ConnectOutcomes == {"ok", "AMQPConnectionError"}

\* the except clause of _send
CaughtBySend == {"ConnectionWrongStateError", "StreamLostError"}

\* an except clause that retries on the connection it has: "pass"
OnSendErrorPass(r) == IF r \in CaughtBySend THEN "pass" ELSE "raise"

\* what _send does with a send attempt that raised r
OnSendError(r) == IF r \in CaughtBySend THEN "reconnect" ELSE "raise"

\* for _ in range(3): after the body ran without break, with n iterations made
LoopNext(n) == IF n < SendTries THEN "try" ELSE "return"

\* what crawl() meets when send returned, and when send raised: a pika
\* exception is no key of self.errorHandlers
SendReturned == [t |-> "ok", s |-> 0]
SendRaised == [t |-> "Unclassified", s |-> 0]

PubInCall == pub.pc \in {"try", "reconnect"}

\* mqConnect(), called before run(): _mq_connect, its exception swallowed
MqConnect(r) ==
    /\ pub.pc = "off" /\ pc = "gen" /\ gen = "init"
    /\ pub' = [NoPub EXCEPT !.pc = "idle", !.mq = (r = "ok")]
    /\ UNCHANGED engineVars

\* self.send is still the logger: crawl() logs the result and returns True
SendToTerminal ==
    /\ pc = "crawl" /\ ~PubInCall /\ ~pub.mq
    /\ Crawl(SendReturned)
    /\ pub' = [NoPub EXCEPT !.pc = pub.pc]

\* crawl() calls _send: the loop starts
SendBegin ==
    /\ pc = "crawl" /\ ~PubInCall /\ pub.mq
    /\ pub' = [NoPub EXCEPT !.pc = "try", !.mq = TRUE]
    /\ UNCHANGED engineVars

\* one basic_publish: it returns (break, _send returns, crawl returns True),
\* raises an exception the except clause catches, or raises another one,
\* which leaves _send and reaches crawl()'s "except Exception"
SendAttempt(r) ==
    /\ pc = "crawl" /\ pub.pc = "try"
    /\ LET p == [pub EXCEPT !.tries = @ + 1, !.log = Append(@, r)] IN
       IF r = "ok"
       THEN /\ pub' = [p EXCEPT !.pc = "idle", !.delivered = TRUE]
            /\ Crawl(SendReturned)
       ELSE IF OnSendError(r) = "reconnect"
       THEN /\ pub' = [p EXCEPT !.pc = "reconnect"]
            /\ UNCHANGED engineVars
       ELSE IF OnSendError(r) = "raise"
       THEN /\ pub' = [p EXCEPT !.pc = "idle", !.raised = TRUE]
            /\ Crawl(SendRaised)
       ELSE IF LoopNext(p.tries) = "try"
       THEN /\ pub' = p
            /\ UNCHANGED engineVars
       ELSE /\ pub' = [p EXCEPT !.pc = "idle"]
            /\ Crawl(SendReturned)

\* _mq_connect() in the except clause: when it returns the loop goes on, or
\* ends after the last iteration; its exception leaves _send
Reconnect(r) ==
    /\ pc = "crawl" /\ pub.pc = "reconnect"
    /\ LET p == [pub EXCEPT !.reconnects = @ + 1] IN
       IF r # "ok"
       THEN /\ pub' = [p EXCEPT !.pc = "idle", !.raised = TRUE]
            /\ Crawl(SendRaised)
       ELSE IF LoopNext(pub.tries) = "try"
       THEN /\ pub' = [p EXCEPT !.pc = "try"]
            /\ UNCHANGED engineVars
       ELSE /\ pub' = [p EXCEPT !.pc = "idle"]
            /\ Crawl(SendReturned)

\* a crawler given explicit targets, each of which downloads and parses
PubUrls == {<<0>>, <<1, 0>>, <<0, 1>>}

InitPub ==
    /\ cfg \in ExplicitConfigs /\ urls \in PubUrls
    /\ id = cfg.startingid
    /\ skipped = [i \in Tiers |-> <<>>]
    /\ checkingSkips = FALSE
    /\ consecutiveNoSubmissions = 0
    /\ isSet = FALSE
    /\ pc = "gen"
    /\ gen = "init"
    /\ rq = 0
    /\ cur = 0
    /\ src = "none"
    /\ dctx = "none"
    /\ di = 0
    /\ maxChecks = 0
    /\ fatal = FALSE
    /\ passes = 0
    /\ last = NoLast
    /\ run1 = NoRun
    /\ owed = NoOwed
    /\ passFailed = {}
    /\ dropped = NoOwed
    /\ pub = NoPub

NextPub ==
    \/ \E r \in ConnectOutcomes : MqConnect(r)
    \/ GenExplicit
    \/ GenEnd
    \/ SendToTerminal
    \/ SendBegin
    \/ \E r \in SendOutcomes : SendAttempt(r)
    \/ \E r \in ConnectOutcomes : Reconnect(r)
    \/ ShutdownFinish

SpecPub == InitPub /\ [][NextPub]_vars

\* ================================================================ claims
InSeq(q, x) == \E k \in 1 .. Len(q) : q[k] = x
Occurrences(q, x) == Cardinality({k \in 1 .. Len(q) : q[k] = x})
RECURSIVE InTiers(_, _, _)
InTiers(sk, x, i) == IF i < 0 THEN 0 ELSE Occurrences(sk[i], x) + InTiers(sk, x, i - 1)
Held == UNION {{skipped[i][k] : k \in 1 .. Len(skipped[i])} : i \in Tiers}

CursorMode == gen \in {"cursor", "requeue"}
AtCursorYield == pc = "crawl" /\ src = "cursor"
AfterCrawl == last.op \in {"main", "drain"}
Is503 == last.o.t = "ResponseNotOk" /\ last.o.s = 503
IsNoResponse == last.o.t = "ResponseNotOk" /\ last.o.s = -1

\* ---------------------------------------------------------------- C1
\* C1: with an ending bound configured and no explicit targets at start,
\* every cursor value the generator yields lies in
\* [min(start, end), max(start, end)].
CursorYieldInBounds ==
    (AtCursorYield /\ cfg.hasEnd) =>
        /\ cur >= Min(cfg.startingid, cfg.endingid)
        /\ cur <= Max(cfg.startingid, cfg.endingid)

\* ---------------------------------------------------------------- C2
\* C2: in every reachable state a target is held by at most one tier, and
\* at most once.
TargetInAtMostOneTier == \A x \in Held : InTiers(skipped, x, LastTier) <= 1

\* ---------------------------------------------------------------- C3
\* a drain pass has just returned to its caller
PassEnded == last.op = "drain" /\ pc # "drain" /\ last.ret # "raise"

\* C3: a target popped from tier i < N-1 during a drain pass whose re-attempt
\* fails is, when the pass ends, in tier i+1 and in no other tier, and the
\* pass does not attempt it a second time.
EscalatedOnceToNextTier ==
    /\ (last.op = "drain") => ~last.again
    /\ PassEnded =>
          \A f \in passFailed :
              /\ InSeq(skipped[f[2]], f[1])
              /\ \A j \in Tiers \ {f[2]} : ~InSeq(skipped[j], f[1])

\* ---------------------------------------------------------------- C4
\* C4: a target popped from the last tier whose re-attempt fails, whatever
\* the failure, is afterwards in no tier and is not attempted again.
DroppedIsGone ==
    /\ dropped.on => dropped.v \notin Held
    /\ AfterCrawl => ~last.afterDrop

\* ---------------------------------------------------------------- C5
JustRewound == last.op = "main" /\ last.rewound /\ CursorMode
BackoffOver ==
    /\ CursorMode
    /\ pc = "check"
    /\ \/ last.op = "main" /\ last.rewound
       \/ last.op = "drain" /\ last.ctx = "idle"
\* the skipMax cursor values the generator yields next
RewoundRange == {CursorAfterResume + k * cfg.direction : k \in 0 .. (SkipMax - 1)}

\* the rewind is by exactly skipMax x step, the counter is 0, and when the
\* back-off is over (idle() has returned) tier 0 holds no target of the
\* rewound range
BackoffRewinds ==
    /\ JustRewound =>
          /\ id = last.idWas - SkipMax * cfg.direction
          /\ consecutiveNoSubmissions = 0
    /\ BackoffOver =>
          /\ consecutiveNoSubmissions = 0
          /\ \A x \in RewoundRange : ~InSeq(skipped[0], x)

TransientBypassesTiers ==
    (AfterCrawl /\ (Is503 \/ IsNoResponse)) =>
        /\ last.requeued
        /\ urls # <<>> /\ urls[Len(urls)] = last.target
        /\ last.push = -1
        /\ last.ret = "True"

\* ---------------------------------------------------------------- C9
\* C9: in cursor mode, when the attempt at cursor value v returns 503, v is
\* appended to self.urls, crawl sleeps 5 minutes, and no further cursor
\* value is attempted before v is attempted again (so v is attempted again
\* before v + 2*step is).
RequeuedBeforeNextCursor ==
    /\ (last.op = "main" /\ src = "cursor" /\ Is503) =>
          /\ urls # <<>> /\ urls[Len(urls)] = last.target
          /\ last.sleep = 5
          /\ owed.on /\ owed.v = last.target
    /\ AtCursorYield => ~owed.on

\* the re-queued cursor value has been yielded again, the cursor one step on
RequeueWitness ==
    /\ pc = "crawl" /\ src = "requeue" /\ owed.on /\ owed.v = cur
    /\ id = cur + cfg.direction

\* --------------------------------------------------------------- C10
IsFatalKind == last.o.t \in {"BadOrMalformedResponse", "Unclassified"}

\* C10: when a crawl attempt fails with a malformed response or with an
\* error kind absent from the table, nothing more is pulled from the
\* generator and the graceful shutdown follows, which runs at most N drain
\* passes and runs a pass only while targets are pending.
FatalStopsPulling ==
    /\ [] /\ (AfterCrawl /\ IsFatalKind) => (fatal /\ pc \in {"shutdown", "exit"})
          /\ fatal => /\ pc \in {"shutdown", "drain", "exit"}
                      /\ pc = "drain" => dctx = "shutdown"
          /\ passes <= NumTiers
    /\ [][passes' # passes => TotalSkipped(skipped) > 0]_vars

\* after a fatal error the shutdown has used all N of its passes
FatalWitness == fatal /\ pc = "exit" /\ passes = NumTiers

\* ---------------------------------------------------------------- C7
\* a call of _send has ended
PubDone == pub.pc = "idle" /\ pub.tries > 0
FailedSends == {k \in 1 .. Len(pub.log) : pub.log[k] # "ok"}
TwiceFailedThenSent ==
    /\ PubDone /\ Len(pub.log) = 3
    /\ pub.log[1] \in CaughtBySend /\ pub.log[2] \in CaughtBySend /\ pub.log[3] = "ok"

\* C7: in a publish call whose first two send attempts fail with a
\* connection-state error and whose third succeeds, the message is
\* delivered on the third attempt and exactly one reconnect has occurred.
SentOnThirdOneReconnect ==
    TwiceFailedThenSent =>
        /\ pub.delivered /\ pub.tries = 3 /\ ~pub.raised
        /\ pub.reconnects = 1

\* C7 as amended: the same with exactly two reconnects, one after each
\* failed attempt.
SentOnThirdTwoReconnects ==
    TwiceFailedThenSent =>
        /\ pub.delivered /\ pub.tries = 3 /\ ~pub.raised
        /\ pub.reconnects = 2

\* the third attempt has delivered the message and crawl() returned True
SentOnThirdWitness ==
    /\ TwiceFailedThenSent /\ pub.delivered
    /\ last.op = "main" /\ last.ret = "True"

\* ---------------------------------------------------------------- C8
\* C8: a publish call makes at most 3 send attempts and returns without
\* raising whatever its send and reconnect attempts meet; after 3 failed
\* attempts the message is dropped and not retried, and the crawl goes on:
\* no publish failure makes the engine Fatal.
PublishNeverRaises ==
    /\ pub.tries <= SendTries
    /\ ~pub.raised
    /\ ~fatal
    /\ (PubDone /\ Cardinality(FailedSends) = SendTries) =>
          /\ ~pub.delivered
          /\ pc = "check" /\ last.ret = "True"

\* --------------------------------------------------------------- C11
\* run() under weak fairness: the engine keeps taking steps while it can
\* (every download, sleep and drain step ends)
FairSpec == Spec /\ WF_vars(Next)

\* the generator yields a target that is not a re-queued one
PullsNew == pc # "crawl" /\ pc' = "crawl" /\ src' \in {"cursor", "explicit"}

\* C11: in cursor mode and in explicit mode, once the event is set (it stays
\* set) the engine pulls no new target and eventually exits with its final
\* log, whatever the remaining attempts meet.
CancelStopsEngine ==
    /\ [][isSet => ~PullsNew]_vars
    /\ (isSet ~> (pc = "exit"))

\* --------------------------------------------------------------- C12
\* the policy table: what is done with the target, and the sleep in minutes
PolicyOfStatus(st) ==
    CASE st = 503                -> [what |-> "requeue", sleep |-> 5]
      [] st = -1                 -> [what |-> "requeue", sleep |-> 0]
      [] st >= 500 /\ st <= 599  -> [what |-> "push", sleep |-> 60]
      [] st >= 400 /\ st <= 499  -> [what |-> "push", sleep |-> 0]
      [] st >= 0 /\ st <= 99     -> [what |-> "push", sleep |-> 0]
      [] OTHER                   -> [what |-> "absent", sleep |-> 0]
PolicyOf(o) ==
    CASE o.t = "ResponseNotOk"          -> PolicyOfStatus(o.s)
      [] o.t = "WebsiteOffline"         -> [what |-> "push", sleep |-> 60]
      [] o.t = "ConnectionError"        -> [what |-> "push", sleep |-> 5]
      [] o.t = "ReadTimeout"            -> [what |-> "push", sleep |-> 1]
      [] o.t = "SSLError"               -> [what |-> "push", sleep |-> 0]
      [] o.t = "InvalidResponseType"    -> [what |-> "push", sleep |-> 0]
      [] o.t = "InvalidSubmission"      -> [what |-> "resolved", sleep |-> 0]
      [] o.t = "BadOrMalformedResponse" -> [what |-> "fatal", sleep |-> 0]
      [] o.t = "Unclassified"           -> [what |-> "fatal", sleep |-> 0]
      [] OTHER                          -> [what |-> "absent", sleep |-> 0]

\* C12: for every error kind of the policy table, what a main-loop failure
\* does with the target (fatal, push to tier 0, re-enqueue into self.urls, or
\* resolved) and the sleep it makes are those of the table.
PolicyTableFollowed ==
    (last.op = "main" /\ PolicyOf(last.o).what # "absent") =>
        LET p == PolicyOf(last.o) IN
        /\ (p.what = "fatal") = (last.ret = "raise")
        /\ (p.what = "push") = (last.push = 0)
        /\ (p.what = "push") => skipped[0] # <<>> /\ skipped[0][Len(skipped[0])] = last.target
        /\ (p.what = "requeue") = last.requeued
        /\ (p.what = "requeue") => urls # <<>> /\ urls[Len(urls)] = last.target
        /\ (p.what = "resolved") = (last.ret = "True")
        /\ last.sleep = p.sleep

\* a 5xx answer in the main loop: pushed to tier 0 after an hour's sleep
PolicyWitness ==
    /\ last.op = "main" /\ last.o = [t |-> "ResponseNotOk", s |-> 500]
    /\ last.push = 0 /\ last.sleep = 60

\* --------------------------------------------------------------- C13
\* a ResponseNotOk whose hundred-bucket has no handler and that is neither
\* 503 nor no-response
UnknownBucket(o) ==
    /\ o.t = "ResponseNotOk"
    /\ o.s \notin {503, -1}
    /\ HundredCode(o.s) \notin ResponseNotOkKeys

\* C13: a ResponseNotOk with an unknown hundred-bucket met outside a drain
\* pass is handled as the 0xx bucket is: its target is pushed to tier 0, so
\* it is never silently dropped.
UnknownBucketPushed ==
    (last.op = "main" /\ UnknownBucket(last.o)) =>
        /\ last.push = 0
        /\ last.target \in Held

\* --------------------------------------------------------------- C14
\* the generator yields a cursor value other than the first one
YieldsLaterCursor == Pulling /\ pc' = "crawl" /\ src' = "cursor" /\ gen # "init"
\* the generator yields a re-queued target
YieldsRequeued == Pulling /\ pc' = "crawl" /\ src' = "requeue"

ExplicitMode == gen = "explicit" \/ (gen = "init" /\ urls # <<>>)

\* C15: when self.urls is non-empty at start, the generator yields explicit
\* entries only and self.id is never modified during the whole run, for
\* either sign of the step and whatever the attempts meet (runs of
\* NoSubmission included).
ExplicitLeavesCursor ==
    /\ (ExplicitMode /\ pc = "crawl") => src = "explicit"
    /\ ExplicitMode => id = cfg.startingid

\* --------------------------------------------------------------- C16
\* the targets the generator can still yield: the entries of self.urls and,
\* in cursor mode, the cursor values from the one it resumes at onwards
StillToYield ==
    {urls[k] : k \in 1 .. Len(urls)} \cup
    (IF CursorMode THEN {x \in Held \cup last.removed : x >= CursorAfterResume} ELSE {})

\* C16: every entry that the idle back-off removes from tier 0 is the target
\* of a counted NoSubmission outcome of the run (never a real failure), and
\* every removed target is yielded again after the idle pause, also when
\* other failures or a periodic drain are interleaved.
BackoffRemovesCounted ==
    (last.op = "main" /\ last.rewound) =>
        /\ last.removed \subseteq last.counted
        /\ last.removed \subseteq StillToYield

\* --------------------------------------------------------------- C17
\* C17 as stated: consecutiveNoSubmissions is 0 immediately after any crawl
\* attempt that succeeds, in the main loop or inside a drain pass.
CounterZeroAfterAnySuccess ==
    (AfterCrawl /\ last.o.t = "ok") => consecutiveNoSubmissions = 0

\* C17 as amended: the counter is 0 immediately after a main-loop attempt
\* for which crawl() returns True; an attempt inside a drain pass never
\* changes the counter, a success included; and a main-loop attempt for
\* which crawl() does not return True never lowers it, unless it is the
\* NoSubmission that reaches skipMax.
CounterResetByMainLoopOnly ==
    /\ [](last.op = "main" /\ last.ret = "True" => consecutiveNoSubmissions = 0)
    /\ [][pc = "drain" => consecutiveNoSubmissions' = consecutiveNoSubmissions]_vars
    /\ [][(pc = "crawl" /\ last'.ret # "True" /\ ~last'.rewound) =>
              consecutiveNoSubmissions' >= consecutiveNoSubmissions]_vars

\* a target succeeds inside a drain pass and the counter stays above 0
DrainSuccessKeepsCounter ==
    /\ last.op = "drain" /\ last.o.t = "ok" /\ last.ret = "True"
    /\ consecutiveNoSubmissions > 0

\* --------------------------------------------------------------- C18
\* C18: while a drain pass runs, no failure pushes onto tier 0 and a
\* NoSubmission outcome changes neither the counter nor the cursor (no
\* attempt of the pass does); so tier 0 is empty whenever a drain pass
\* completes.
DrainLeavesTierZeroEmpty ==
    /\ [](last.op = "drain" => last.push # 0)
    /\ [][pc = "drain" =>
              /\ Len(skipped'[0]) <= Len(skipped[0])
              /\ consecutiveNoSubmissions' = consecutiveNoSubmissions
              /\ id' = id]_vars
    /\ [](PassEnded => skipped[0] = <<>>)

\* forward crawling with the counter running: a pass that popped a target
\* from tier 0 and met NoSubmission on it has completed
DrainNoSubmissionWitness ==
    /\ PassEnded /\ last.o.t = "NoSubmission" /\ last.tier = 0
    /\ cfg.direction > 0 /\ consecutiveNoSubmissions > 0
    /\ skipped[0] = <<>>

\* --------------------------------------------------------------- C19
\* run() has returned and no drain pass of the graceful shutdown raised
ExitedAfterShutdownLoop == pc = "exit" /\ ~(last.op = "drain" /\ last.ret = "raise")

\* C19: when no fatal error occurs during the drain passes of the graceful
\* shutdown, every tier is empty at exit: at most N passes (N = number of
\* tiers) bring the pending count to zero.
ShutdownEmptiesTiers ==
    /\ passes <= NumTiers
    /\ ExitedAfterShutdownLoop => TotalSkipped(skipped) = 0

\* the shutdown needed all N passes and left every tier empty
ShutdownWitness ==
    /\ ExitedAfterShutdownLoop /\ passes = NumTiers
    /\ TotalSkipped(skipped) = 0

\* --------------------------------------------------------------- C20
\* C20: when run() returns without a fatal error, self.urls is empty.
UrlsEmptyAtExit == (pc = "exit" /\ ~fatal) => urls = <<>>
====
